---- MODULE Spec2Model ----
(***************************************************************************)
(* Model of fin_model/src/analysis.rs: the Ratings, PriceTarget and        *)
(* EPSConsensus aggregates with Ratings::scaled_average,                   *)
(* PriceTarget::validate and EPSConsensus::validate.                       *)
(*                                                                         *)
(* Counter is u32.  Values of that width do not fit the model checker's    *)
(* integers, so a Counter (and every exact sum of Counters) is written as  *)
(* a high and a low half of 16 bits each.                                  *)
(***************************************************************************)
EXTENDS Integers, Sequences, FiniteSets, TLC

\* ---------------------------------------------------------------- bounds
MaxSmall == 2        \* small counts 0..MaxSmall are drawn for every Counter
MaxEntries == 3      \* a ratings map holds at most this many categories
MaxMoney == 3        \* Money values are 0..MaxMoney
MaxDate == 3         \* Date values are 0..MaxDate
MaxCalls == 2        \* calls made on the one value under test

\* ---------------------------------------------------------------- Counter
CounterBits == 32

\* A natural number n is the record [hi, lo] with n = hi * Base + lo and
\* lo < Base; a u32 is a number with hi < Base.
Base == 2 ^ (CounterBits \div 2)

Norm(hi, lo) == [hi |-> hi + lo \div Base, lo |-> lo % Base]

\* the number n, for n < Base
Small(n) == Norm(0, n)

Zero == Small(0)

\* exact a + b
Add(a, b) == Norm(a.hi + b.hi, a.lo + b.lo)

\* exact w * a for a weight w
Scale(w, a) == Norm(w * a.hi, w * a.lo)

\* a <= b
Le(a, b) == a.hi < b.hi \/ (a.hi = b.hi /\ a.lo <= b.lo)

\* u32::MAX
CounterMax == [hi |-> Base - 1, lo |-> Base - 1]

\* 2^(CounterBits - 1)
CounterHalf == [hi |-> Base \div 2, lo |-> 0]

\* does the exact value x fit a u32
FitsCounter(x) == x.hi < Base

\* x modulo 2^CounterBits
WrapCounter(x) == [hi |-> x.hi % Base, lo |-> x.lo]

\* the Counter values the model draws
CounterSamples ==
    {Small(n) : n \in 0..MaxSmall}
        \cup {CounterHalf, CounterMax}

\* ---------------------------------------------------------------- types
RatingType == {"Buy", "Outperform", "Hold", "Underperform", "Sell"}

Money == 0..MaxMoney
Date == 0..MaxDate

\* results of the three operations; Some(total, count, _) stands for the f64
\* f64::from(total) / f64::from(count); wrapped records that an addition or
\* multiplication of the call wrapped around
None == [tag |-> "None", total |-> Zero, count |-> Zero, wrapped |-> FALSE, msg |-> ""]
Some(total, count, wrapped) ==
    [tag |-> "Some", total |-> total, count |-> count, wrapped |-> wrapped, msg |-> ""]
Panic == [tag |-> "Panic", total |-> Zero, count |-> Zero, wrapped |-> FALSE, msg |-> ""]
Ok == [tag |-> "Ok", total |-> Zero, count |-> Zero, wrapped |-> FALSE, msg |-> ""]
Err(m) == [tag |-> "Err", total |-> Zero, count |-> Zero, wrapped |-> FALSE, msg |-> m]
NoCall == [tag |-> "NoCall", total |-> Zero, count |-> Zero, wrapped |-> FALSE, msg |-> ""]

VARIABLES
    self,            \* which aggregate the caller holds
    ratings,         \* Ratings.ratings: RatingType -> Counter, partial
    price_target,    \* PriceTarget fields
    eps,             \* EPSConsensus fields
    overflow_checks, \* the build: TRUE panics on integer overflow, FALSE wraps
    result,          \* what the latest call returned
    calls            \* calls made so far

vars == <<self, ratings, price_target, eps, overflow_checks, result, calls>>

\* ---------------------------------------------------------------- Ratings
\* the weight the match gives each rating type
Weight(k) ==
    CASE k = "Buy" -> 1
      [] k = "Outperform" -> 2
      [] k = "Hold" -> 3
      [] k = "Underperform" -> 4
      [] k = "Sell" -> 5

\* a u32 operation whose exact result is x: the value when it fits; on
\* overflow a panic in a build with overflow checks, the wrapped value
\* otherwise
CounterOp(x, oc) ==
    [val |-> WrapCounter(x),
     wrapped |-> ~FitsCounter(x) /\ ~oc,
     panicked |-> ~FitsCounter(x) /\ oc]

\* the closure with the weight applied to the running total too:
\* (c + *v, weight * (t + *v))
FoldBodyPrecedence(acc, k, v, oc) ==
    LET c2 == CounterOp(Add(acc.c, v), oc)
        tv == CounterOp(Add(acc.t, v), oc)
        t2 == CounterOp(Scale(Weight(k), tv.val), oc)
    IN  [c |-> c2.val,
         t |-> t2.val,
         wrapped |-> acc.wrapped \/ c2.wrapped \/ tv.wrapped \/ t2.wrapped,
         panicked |-> acc.panicked \/ c2.panicked \/ tv.panicked \/ t2.panicked]

\* the closure keeping only the latest entry's product: (c + *v, weight * *v)
FoldBodyLatest(acc, k, v, oc) ==
    LET c2 == CounterOp(Add(acc.c, v), oc)
        wv == CounterOp(Scale(Weight(k), v), oc)
    IN  [c |-> c2.val,
         t |-> wv.val,
         wrapped |-> acc.wrapped \/ c2.wrapped \/ wv.wrapped,
         panicked |-> acc.panicked \/ c2.panicked \/ wv.panicked]

\* the fold's closure: (c + *v, t + weight * *v)
FoldBody(acc, k, v, oc) ==
    LET c2 == CounterOp(Add(acc.c, v), oc)
        wv == CounterOp(Scale(Weight(k), v), oc)
        t2 == CounterOp(Add(acc.t, wv.val), oc)
    IN  [c |-> c2.val,
         t |-> t2.val,
         wrapped |-> acc.wrapped \/ c2.wrapped \/ wv.wrapped \/ t2.wrapped,
         panicked |-> acc.panicked \/ c2.panicked \/ wv.panicked \/ t2.panicked]

\* the fold over the map's entries in the order the iterator yields them;
\* a panic ends it
RECURSIVE Fold(_, _, _, _, _)
Fold(r, order, i, acc, oc) ==
    IF i > Len(order) \/ acc.panicked
    THEN acc
    ELSE Fold(r, order, i + 1, FoldBody(acc, order[i], r[order[i]], oc), oc)

\* the orders in which a HashMap's iterator may yield the keys S
RECURSIVE Orders(_)
Orders(S) ==
    IF S = {} THEN {<< >>}
    ELSE UNION {{<<k>> \o o : o \in Orders(S \ {k})} : k \in S}

\* Ratings::scaled_average with the iterator yielding the keys in `order`
ScaledAverageIn(r, order, oc) ==
    IF DOMAIN r = {}
    THEN None
    ELSE LET a == Fold(r, order, 1,
                       [c |-> Zero, t |-> Zero, wrapped |-> FALSE, panicked |-> FALSE],
                       oc)
         IN  IF a.panicked THEN Panic
             ELSE IF a.c = Zero THEN [None EXCEPT !.wrapped = a.wrapped]
             ELSE Some(a.t, a.c, a.wrapped)

\* ---------------------------------------------------------------- PriceTarget
RangeInverted == "High price target cannot be lower than low price target."
AverageOutOfBounds == "Average price target must be within the high and low bounds."
NoAnalysts == "Number of analysts cannot be zero for a valid price target."

\* validate without the analyst check
PriceTargetValidateNoAnalystCheck(p) ==
    IF p.high < p.low THEN Err(RangeInverted)
    ELSE IF ~(p.low <= p.average /\ p.average <= p.high) THEN Err(AverageOutOfBounds)
    ELSE Ok

\* validate with the analyst check first
PriceTargetValidateAnalystsFirst(p) ==
    IF p.number_of_analysts = Zero THEN Err(NoAnalysts)
    ELSE IF p.high < p.low THEN Err(RangeInverted)
    ELSE IF ~(p.low <= p.average /\ p.average <= p.high) THEN Err(AverageOutOfBounds)
    ELSE Ok

\* PriceTarget::validate
PriceTargetValidate(p) ==
    IF p.high < p.low THEN Err(RangeInverted)
    ELSE IF ~(p.low <= p.average /\ p.average <= p.high) THEN Err(AverageOutOfBounds)
    ELSE IF p.number_of_analysts = Zero THEN Err(NoAnalysts)
    ELSE Ok

\* ---------------------------------------------------------------- EPSConsensus
DateOrderInverted == "Fiscal end date should be before the next report date."
NoEstimates == "Number of estimates cannot be zero for a valid EPS consensus."

\* validate rejecting equal dates
EPSConsensusValidateStrict(e) ==
    IF e.fiscal_end_date >= e.next_report_date THEN Err(DateOrderInverted)
    ELSE IF e.number_of_estimates = Zero THEN Err(NoEstimates)
    ELSE Ok

\* validate with the estimate check first
EPSConsensusValidateEstimatesFirst(e) ==
    IF e.number_of_estimates = Zero THEN Err(NoEstimates)
    ELSE IF e.fiscal_end_date > e.next_report_date THEN Err(DateOrderInverted)
    ELSE Ok

\* EPSConsensus::validate
EPSConsensusValidate(e) ==
    IF e.fiscal_end_date > e.next_report_date THEN Err(DateOrderInverted)
    ELSE IF e.number_of_estimates = Zero THEN Err(NoEstimates)
    ELSE Ok

\* ---------------------------------------------------------------- state machine
NoRatings == << >>
NoPriceTarget == [high |-> 0, low |-> 0, average |-> 0, number_of_analysts |-> Zero]
NoEPSConsensus == [fiscal_end_date |-> 0, next_report_date |-> 0, number_of_estimates |-> Zero]

\* a provider hands the caller a Ratings value
InitRatings ==
    /\ self = "Ratings"
    /\ \E S \in SUBSET RatingType :
          /\ Cardinality(S) <= MaxEntries
          /\ ratings \in [S -> CounterSamples]
    /\ price_target = NoPriceTarget
    /\ eps = NoEPSConsensus

\* a provider hands the caller a PriceTarget value
InitPriceTarget ==
    /\ self = "PriceTarget"
    /\ ratings = NoRatings
    /\ price_target \in [high : Money, low : Money, average : Money,
                         number_of_analysts : CounterSamples]
    /\ eps = NoEPSConsensus

\* a provider hands the caller an EPSConsensus value
InitEPSConsensus ==
    /\ self = "EPSConsensus"
    /\ ratings = NoRatings
    /\ price_target = NoPriceTarget
    /\ eps \in [fiscal_end_date : Date, next_report_date : Date,
                number_of_estimates : CounterSamples]

Init ==
    /\ InitRatings \/ InitPriceTarget \/ InitEPSConsensus
    /\ overflow_checks \in BOOLEAN
    /\ result = NoCall
    /\ calls = 0

\* the caller calls ratings.scaled_average()
ScaledAverage ==
    /\ self = "Ratings"
    /\ calls < MaxCalls
    /\ result' \in {ScaledAverageIn(ratings, order, overflow_checks) :
                      order \in Orders(DOMAIN ratings)}
    /\ calls' = calls + 1
    /\ UNCHANGED <<self, ratings, price_target, eps, overflow_checks>>

\* the caller calls price_target.validate()
ValidatePriceTarget ==
    /\ self = "PriceTarget"
    /\ calls < MaxCalls
    /\ result' = PriceTargetValidate(price_target)
    /\ calls' = calls + 1
    /\ UNCHANGED <<self, ratings, price_target, eps, overflow_checks>>

\* the caller calls eps.validate()
ValidateEPSConsensus ==
    /\ self = "EPSConsensus"
    /\ calls < MaxCalls
    /\ result' = EPSConsensusValidate(eps)
    /\ calls' = calls + 1
    /\ UNCHANGED <<self, ratings, price_target, eps, overflow_checks>>

Next == ScaledAverage \/ ValidatePriceTarget \/ ValidateEPSConsensus

Spec == Init /\ [][Next]_vars

\* ---------------------------------------------------------------- exact arithmetic
\* The mathematical sums the formula of scaled_average speaks of, over the
\* categories present, in unbounded naturals.
RECURSIVE ExactCount(_, _)
ExactCount(r, S) ==
    IF S = {} THEN Zero
    ELSE LET k == CHOOSE x \in S : TRUE
         IN  Add(r[k], ExactCount(r, S \ {k}))

RECURSIVE ExactTotal(_, _)
ExactTotal(r, S) ==
    IF S = {} THEN Zero
    ELSE LET k == CHOOSE x \in S : TRUE
         IN  Add(Scale(Weight(k), r[k]), ExactTotal(r, S \ {k}))

SumCount == ExactCount(ratings, DOMAIN ratings)
SumTotal == ExactTotal(ratings, DOMAIN ratings)

\* Products of two such numbers, for comparing quotients: a number as its
\* little-endian sequence of base-LimbBase digits without trailing zeros.
LimbBase == 2 ^ (CounterBits \div 4)

RECURSIVE Trim(_)
Trim(s) ==
    IF s = << >> THEN s
    ELSE IF s[Len(s)] = 0 THEN Trim(SubSeq(s, 1, Len(s) - 1))
    ELSE s

RECURSIVE Limbs(_)
Limbs(n) == IF n = 0 THEN << >> ELSE <<n % LimbBase>> \o Limbs(n \div LimbBase)

ToLimbs(a) == Trim(<<a.lo % LimbBase, a.lo \div LimbBase>> \o Limbs(a.hi))

Digit(a, i) == IF i <= Len(a) THEN a[i] ELSE 0

MaxOf(x, y) == IF x >= y THEN x ELSE y

RECURSIVE AddFrom(_, _, _, _)
AddFrom(a, b, i, carry) ==
    IF i > MaxOf(Len(a), Len(b))
    THEN Limbs(carry)
    ELSE LET d == Digit(a, i) + Digit(b, i) + carry
         IN  <<d % LimbBase>> \o AddFrom(a, b, i + 1, d \div LimbBase)

RECURSIVE MulDigitFrom(_, _, _, _)
MulDigitFrom(a, d, i, carry) ==
    IF i > Len(a)
    THEN Limbs(carry)
    ELSE LET x == a[i] * d + carry
         IN  <<x % LimbBase>> \o MulDigitFrom(a, d, i + 1, x \div LimbBase)

RECURSIVE MulFrom(_, _, _)
MulFrom(a, b, i) ==
    IF i > Len(b)
    THEN << >>
    ELSE Trim(AddFrom([j \in 1..(i - 1) |-> 0] \o Trim(MulDigitFrom(a, b[i], 1, 0)),
                      MulFrom(a, b, i + 1), 1, 0))

\* the digits of the exact product a * b
Product(a, b) == MulFrom(ToLimbs(a), ToLimbs(b), 1)

\* n1/d1 = n2/d2 for d1, d2 > 0
QuotEq(n1, d1, n2, d2) == Product(n1, d2) = Product(n2, d1)

Called == calls > 0

\* a call of the named operation has returned
OnRatings == self = "Ratings" /\ Called
OnPriceTarget == self = "PriceTarget" /\ Called
OnEPSConsensus == self = "EPSConsensus" /\ Called

\* ---------------------------------------------------------------- claims
\* C1: whenever the total count of the mapping is greater than 0,
\* scaled_average returns exactly sum(weight * count) / sum(count) over the
\* categories present.
C1_WeightedMean ==
    (OnRatings /\ SumCount # Zero) =>
        /\ result.tag = "Some"
        /\ QuotEq(result.total, result.count, SumTotal, SumCount)

\* C2: scaled_average returns None if and only if the mapping is empty or
\* the sum of its counts is 0.
C2_NoneIffNoCounts ==
    OnRatings =>
        (result.tag = "None" <=> (DOMAIN ratings = {} \/ SumCount = Zero))

\* C3: for a non-empty mapping with total count > 0 the returned value lies
\* in [1.0, 5.0]: count <= total <= 5 * count.
C3_WithinScale ==
    (OnRatings /\ DOMAIN ratings # {} /\ SumCount # Zero) =>
        /\ result.tag = "Some"
        /\ Le(result.count, result.total)
        /\ Le(result.total, Scale(Weight("Sell"), result.count))

\* C4: scaled_average never fails and its accumulation never overflows the
\* 32-bit accumulators: every call yields a value or None, and no addition
\* or multiplication wraps.
C4_NoFailureNoOverflow ==
    OnRatings =>
        /\ result.tag \in {"Some", "None"}
        /\ ~result.wrapped

\* C5: PriceTarget::validate succeeds if and only if low <= average <= high
\* and number_of_analysts > 0.
C5_PriceTargetOkIff ==
    OnPriceTarget =>
        (result = Ok <=>
            /\ price_target.low <= price_target.average
            /\ price_target.average <= price_target.high
            /\ ~Le(price_target.number_of_analysts, Zero))

C5_Witness ==
    /\ OnPriceTarget
    /\ price_target.low < price_target.average
    /\ price_target.average < price_target.high
    /\ price_target.number_of_analysts = CounterMax
    /\ result = Ok

AverageWithin(p) == p.low <= p.average /\ p.average <= p.high

\* C6: PriceTarget::validate reports the first failure in the order range,
\* average, analysts: high < low gives the range error whatever the average
\* and the analyst count; high >= low with the average outside [low, high]
\* gives the average error whatever the analyst count; the analyst error is
\* returned exactly when the range and the average are fine and the count
\* is 0.
C6_PriceTargetFirstError ==
    OnPriceTarget =>
        /\ price_target.high < price_target.low => result = Err(RangeInverted)
        /\ (price_target.high >= price_target.low /\ ~AverageWithin(price_target))
               => result = Err(AverageOutOfBounds)
        /\ result = Err(NoAnalysts) <=>
               /\ price_target.high >= price_target.low
               /\ AverageWithin(price_target)
               /\ price_target.number_of_analysts = Zero

C6_Witness ==
    /\ OnPriceTarget
    /\ price_target.high < price_target.low
    /\ price_target.average > price_target.low
    /\ price_target.number_of_analysts = Zero
    /\ result = Err(RangeInverted)

\* C7: EPSConsensus::validate succeeds if and only if fiscal_end_date <=
\* next_report_date and number_of_estimates > 0; equal dates are accepted.
C7_EPSConsensusOkIff ==
    OnEPSConsensus =>
        (result = Ok <=>
            /\ eps.fiscal_end_date <= eps.next_report_date
            /\ ~Le(eps.number_of_estimates, Zero))

C7_Witness ==
    /\ OnEPSConsensus
    /\ eps.fiscal_end_date = eps.next_report_date
    /\ eps.number_of_estimates # Zero
    /\ result = Ok

\* C8: EPSConsensus::validate checks the dates before the estimate count:
\* fiscal_end_date > next_report_date gives the date error even with 0
\* estimates, and the estimate error is returned exactly when the dates are
\* in order and the count is 0.
C8_EPSConsensusFirstError ==
    OnEPSConsensus =>
        /\ eps.fiscal_end_date > eps.next_report_date => result = Err(DateOrderInverted)
        /\ result = Err(NoEstimates) <=>
               /\ eps.fiscal_end_date <= eps.next_report_date
               /\ eps.number_of_estimates = Zero

C8_Witness ==
    /\ OnEPSConsensus
    /\ eps.fiscal_end_date > eps.next_report_date
    /\ eps.number_of_estimates = Zero
    /\ result = Err(DateOrderInverted)

\* C9: a repeated call on the same value returns what the call before it
\* returned, and no call changes a field of the value it is made on.
C9_RepeatableAndReadOnly ==
    [][/\ (Called /\ calls' = calls + 1) => result' = result
       /\ ratings' = ratings
       /\ price_target' = price_target
       /\ eps' = eps]_vars

C9_Witness ==
    /\ self = "Ratings"
    /\ calls = MaxCalls
    /\ Cardinality({k \in DOMAIN ratings : ratings[k] # Zero}) >= 2
    /\ result.tag = "Some"

\* the mapping r with the entry k |-> 0 added
WithZero(r, k) == [x \in DOMAIN r \cup {k} |-> IF x = k THEN Zero ELSE r[x]]

\* the mapping r without its entry for k
Without(r, k) == [x \in DOMAIN r \ {k} |-> r[x]]

AnyOrder(S) == CHOOSE o \in Orders(S) : TRUE

\* C10: the result of scaled_average is the same for every order in which
\* the fold visits the entries, and for a mapping with total count > 0 it
\* does not change when an entry with count 0 is added or removed.
C10_OrderAndZeroEntries ==
    OnRatings =>
        /\ \A order \in Orders(DOMAIN ratings) :
               ScaledAverageIn(ratings, order, overflow_checks) = result
        /\ SumCount # Zero =>
               \A k \in RatingType :
                   /\ (k \notin DOMAIN ratings /\ Cardinality(DOMAIN ratings) < MaxEntries) =>
                          ScaledAverageIn(WithZero(ratings, k),
                                          AnyOrder(DOMAIN ratings \cup {k}),
                                          overflow_checks) = result
                   /\ (k \in DOMAIN ratings /\ ratings[k] = Zero) =>
                          ScaledAverageIn(Without(ratings, k),
                                          AnyOrder(DOMAIN ratings \ {k}),
                                          overflow_checks) = result

C10_Witness ==
    /\ OnRatings
    /\ \E k \in DOMAIN ratings : ratings[k] = Zero
    /\ Cardinality({k \in DOMAIN ratings : ratings[k] # Zero}) >= 2
    /\ result.tag = "Some"

====
